---- MODULE Spec2Model ----
(***************************************************************************)
(* AIBanker front end: the client-side session / token lifecycle.          *)
(*                                                                         *)
(*   - the Token Store: localStorage keys 'token' and 'refreshToken';      *)
(*   - the HTTP clients: three axios instances (auth, deals, documents),   *)
(*     each with a request interceptor, the auth one also with the         *)
(*     response interceptor that refreshes and retries on 401;             *)
(*   - the auth slice, of which the repository holds two implementations   *)
(*     (variant "A" = src/unnamed/part_002, variant "B" =                  *)
(*     src/unnamed/part_003).                                              *)
(*                                                                         *)
(* One step of the model is one turn of the browser's event loop: a UI     *)
(* dispatch, or the arrival of one HTTP response together with every       *)
(* promise continuation it resumes (interceptor, thunk body, reducer).     *)
(***************************************************************************)
EXTENDS Integers, Sequences, FiniteSets, TLC

VARIABLES
    variant,     \* which of the two authSlice implementations is loaded
    lsToken,     \* localStorage.getItem('token')
    lsRefresh,   \* localStorage.getItem('refreshToken')
    location,    \* window.location.href
    auth,        \* the auth slice's state
    calls,       \* the API calls of the callers (thunks or components)
    last,        \* what the latest step did (see NoEvent)
    validRefresh, \* backend: the refresh token /auth/refresh accepts
    server,      \* backend: the deals and the documents it stores
    deals,       \* the deals slice's state
    documents,   \* the documents slice's state
    reqs,        \* the thunks of the deals and documents slices in flight
    rlast        \* what the latest step of those slices did (see NoStep)

sessionVars == <<variant, lsToken, lsRefresh, location, auth, calls, last, validRefresh>>
resourceVars == <<server, deals, documents, reqs, rlast>>
vars == <<variant, lsToken, lsRefresh, location, auth, calls, last, validRefresh,
          server, deals, documents, reqs, rlast>>

----------------------------------------------------------------------------
(* Bounds of the model *)

\* number of API calls that can be in flight together
MaxCalls == 2
\* number of thunks of the auth slice that can be in flight together
MaxThunks == 1
\* longest chain of requests one call can have open: the original request,
\* the refresh awaited by its 401 handler, the refresh awaited by that
\* refresh's own 401 handler, ...
MaxNest == 3

----------------------------------------------------------------------------
(* Values *)

Null == "null"
AccessTokens == {"T1", "T2"}
Users == {"U1", "U2"}
\* response bodies of /auth/login, /auth/register and /auth/refresh
TokenPairs ==
    { [access_token |-> "T1", refresh_token |-> "R1"],
      [access_token |-> "T2", refresh_token |-> "R2"] }
\* HTTP status of a failure; NoResponse stands for a network error, where
\* error.response is undefined
NoResponse == 0

\* JavaScript truthiness of a string-or-null value: if (token), !!token, a || b
Truthy(x) == x /= Null /\ x /= ""

\* `Bearer ${token}`
NoHeader == <<>>
Bearer(t) == <<"Bearer", t>>

Clients == {"auth", "deals", "documents"}
AuthOps == {"login", "register", "refreshToken", "logout", "getCurrentUser"}
\* a call made outside the thunks (authApi.changePassword, a dealsApi or
\* documentsApi method) has op "raw"
CallIds == 1..(IF MaxCalls > MaxThunks THEN MaxCalls ELSE MaxThunks)

Front(s) == SubSeq(s, 1, Len(s) - 1)

----------------------------------------------------------------------------
(* Responses *)

NoData == [access_token |-> Null, refresh_token |-> Null, user |-> Null]

OkResp(d) == [ok |-> TRUE, status |-> 200, detail |-> Null, data |-> d]
FailResp(s, dt) == [ok |-> FALSE, status |-> s, detail |-> dt, data |-> NoData]

\* what a 2xx response of an endpoint carries
UserOf(p) == IF p.access_token = "T1" THEN "U1" ELSE "U2"
AuthData == { [access_token |-> p.access_token, refresh_token |-> p.refresh_token,
               user |-> UserOf(p)] : p \in TokenPairs }
RefreshData == { [access_token |-> p.access_token, refresh_token |-> p.refresh_token,
                  user |-> Null] : p \in TokenPairs }
UserData == { [access_token |-> Null, refresh_token |-> Null, user |-> u] : u \in Users }

\* endpoint = the thunk's endpoint for the original request, "refresh" for a
\* refresh issued by the response interceptor
DataOf(endpoint) ==
    CASE endpoint \in {"login", "register"} -> AuthData
      [] endpoint \in {"refreshToken", "refresh"} -> RefreshData
      [] endpoint = "getCurrentUser" -> UserData
      [] OTHER -> {NoData}

OkResponses(endpoint) == { OkResp(d) : d \in DataOf(endpoint) }
\* the failures: an authorization failure, a business error with its detail
\* message, a server error without one, a network error
FailResponses ==
    { FailResp(401, Null), FailResp(403, "Bad"), FailResp(500, Null),
      FailResp(NoResponse, Null) }

\* a result as its receiver sees it: the response and which send of the
\* request it answers (1 = the first send, 2 = the re-issue)
Tag(resp, n) ==
    [ok |-> resp.ok, status |-> resp.status, detail |-> resp.detail,
     data |-> resp.data, send |-> n]
NoResult == Tag(FailResp(NoResponse, Null), 0)

----------------------------------------------------------------------------
(* HTTP client: the request interceptor and the response interceptor.      *)
(* w = [tok, ref, loc] is what a handler can write: the two localStorage   *)
(* keys and window.location.href.                                          *)

\* mutant: the interceptor returns the config without setting the header
RequestInterceptor_NoHeader(hdr, tok) ==
    hdr

\* api.interceptors.request.use: hdr is config.headers.Authorization as the
\* caller left it
RequestInterceptor(hdr, tok) ==
    IF Truthy(tok) THEN Bearer(tok) ELSE hdr

\* only the auth client installs api.interceptors.response.use
HasResponseInterceptor(client) == client = "auth"

\* one request of a call's chain: its config (_retry, body), how often it
\* was sent, and the 401 error its handler holds while it awaits the refresh
NewRequest(body) ==
    [retry |-> FALSE, sends |-> 1, body |-> body, err |-> NoResult]

\* catch (refreshError) { removeItem; removeItem; location.href = '/login' }
CatchRefreshError(w) ==
    [tok |-> Null, ref |-> Null, loc |-> "/login"]

\* What a handler leaves: the call's chain, whether the caller's promise
\* settled and with what, the store and location, and the Authorization
\* header of the request it sent, if it sent one.
Out(chain, settled, result, w, hdr) ==
    [chain |-> chain, settled |-> settled, result |-> result, w |-> w, hdr |-> hdr]

\* The promise of the chain's top request rejects with err. For the
\* original request that is the caller's rejection; for a refresh it lands
\* in the catch of the handler awaiting it, which then reaches
\* `return Promise.reject(error)` with the 401 error it was handling.
RECURSIVE Reject(_, _, _)
Reject(chain, err, w) ==
    IF Len(chain) = 1
    THEN Out(<<>>, TRUE, err, w, NoHeader)
    ELSE Reject(Front(chain), chain[Len(chain) - 1].err, CatchRefreshError(w))

\* mutant: the refresh response is handed to the caller and the original
\* request is not sent again
RetryOriginalRequest_NoRetry(chain, data, w) ==
    Out(<<>>, TRUE, Tag(OkResp(data), 1),
        [w EXCEPT !.tok = data.access_token, !.ref = data.refresh_token], NoHeader)

\* mutant: the original request is sent again before the new pair is
\* persisted
RetryOriginalRequest_NoPersist(chain, data, w) ==
    LET k == Len(chain) - 1
    IN Out([Front(chain) EXCEPT ![k].sends = @ + 1], FALSE, NoResult, w,
           RequestInterceptor(Bearer(data.access_token), w.tok))

\* after `await api.post('/auth/refresh')` returned: persist the pair, set
\* the header, api(originalRequest)
RetryOriginalRequest(chain, data, w) ==
    LET k == Len(chain) - 1
        w2 == [w EXCEPT !.tok = data.access_token, !.ref = data.refresh_token]
    IN Out([Front(chain) EXCEPT ![k].sends = @ + 1], FALSE, NoResult, w2,
           RequestInterceptor(Bearer(data.access_token), w2.tok))

\* (response) => response: the top request's promise fulfils
OnFulfilled(chain, resp, w) ==
    IF Len(chain) = 1
    THEN Out(<<>>, TRUE, Tag(resp, chain[1].sends), w, NoHeader)
    ELSE RetryOriginalRequest(chain, resp.data, w)

\* mutant: the handler calls the refresh endpoint without looking whether a
\* refresh token is stored
OnRejected_AlwaysRefresh(chain, resp, w) ==
    LET k == Len(chain)
        err == Tag(resp, chain[k].sends)
    IN IF err.status = 401 /\ ~chain[k].retry
       THEN Out(Append([chain EXCEPT ![k].retry = TRUE, ![k].err = err],
                       NewRequest(w.ref)),
                FALSE, NoResult, w, RequestInterceptor(NoHeader, w.tok))
       ELSE Reject(chain, err, w)

\* mutant: the handler does not set originalRequest._retry
OnRejected_NoRetryMark(chain, resp, w) ==
    LET k == Len(chain)
        err == Tag(resp, chain[k].sends)
    IN IF err.status = 401 /\ ~chain[k].retry
       THEN LET held == [chain EXCEPT ![k].err = err]
            IN IF Truthy(w.ref)
               THEN Out(Append(held, NewRequest(w.ref)), FALSE, NoResult, w,
                        RequestInterceptor(NoHeader, w.tok))
               ELSE Reject(held, err, w)
       ELSE Reject(chain, err, w)

\* mutant: the handler takes 403 for an expired token as well
OnRejected_Also403(chain, resp, w) ==
    LET k == Len(chain)
        err == Tag(resp, chain[k].sends)
    IN IF err.status \in {401, 403} /\ ~chain[k].retry
       THEN LET marked == [chain EXCEPT ![k].retry = TRUE, ![k].err = err]
            IN IF Truthy(w.ref)
               THEN Out(Append(marked, NewRequest(w.ref)), FALSE, NoResult, w,
                        RequestInterceptor(NoHeader, w.tok))
               ELSE Reject(marked, err, w)
       ELSE Reject(chain, err, w)

\* mutant: while another call's refresh is in flight the handler posts no
\* refresh of its own and waits for that one
OnRejected_SharedRefresh(chain, resp, w) ==
    LET k == Len(chain)
        err == Tag(resp, chain[k].sends)
    IN IF err.status = 401 /\ ~chain[k].retry
       THEN LET marked == [chain EXCEPT ![k].retry = TRUE, ![k].err = err]
            IN IF Truthy(w.ref)
               THEN IF k = 1 /\ \E d \in DOMAIN calls : Len(calls[d].chain) >= 2
                    THEN Out(marked, FALSE, NoResult, w, NoHeader)
                    ELSE Out(Append(marked, NewRequest(w.ref)), FALSE, NoResult, w,
                             RequestInterceptor(NoHeader, w.tok))
               ELSE Reject(marked, err, w)
       ELSE Reject(chain, err, w)

\* async (error) => { ... }: the response interceptor's error handler, run
\* for the chain's top request
OnRejected(chain, resp, w) ==
    LET k == Len(chain)
        err == Tag(resp, chain[k].sends)
    IN IF err.status = 401 /\ ~chain[k].retry
       THEN LET marked == [chain EXCEPT ![k].retry = TRUE, ![k].err = err]
            IN IF Truthy(w.ref)
               THEN Out(Append(marked, NewRequest(w.ref)), FALSE, NoResult, w,
                        RequestInterceptor(NoHeader, w.tok))
               ELSE Reject(marked, err, w)
       ELSE Reject(chain, err, w)

\* a response reaches the client that sent the request
Receive(client, chain, resp, w) ==
    IF resp.ok
    THEN OnFulfilled(chain, resp, w)
    ELSE IF HasResponseInterceptor(client)
         THEN OnRejected(chain, resp, w)
         ELSE Reject(chain, Tag(resp, chain[Len(chain)].sends), w)

----------------------------------------------------------------------------
(* Auth slice. st = [auth, tok, ref]: the slice's state and the two         *)
(* localStorage keys, which thunk bodies and reducers both write.          *)
(* Suffix A: src/unnamed/part_002; suffix B: src/unnamed/part_003.         *)

\* const initialState: AuthState, read from localStorage at load
initialState(tok, ref) ==
    [user |-> Null, token |-> tok, refreshToken |-> ref,
     isAuthenticated |-> Truthy(tok), isLoading |-> FALSE, error |-> Null]

\* error.response?.data?.detail || fallback
ErrorMessage(err, fallback) ==
    IF Truthy(err.detail) THEN err.detail ELSE fallback

\* the state.user = null ... state.isAuthenticated = false block
Anonymous(a) ==
    [a EXCEPT !.user = Null, !.token = Null, !.refreshToken = Null,
              !.isAuthenticated = FALSE]

(* reducers *)
\* mutant: clearError also removes the stored tokens
clearError_RemovesTokens(st) ==
    [st EXCEPT !.auth.error = Null, !.tok = Null, !.ref = Null]

clearError(st) == [st EXCEPT !.auth.error = Null]

setToken(st, t) ==
    [st EXCEPT !.auth.token = t, !.auth.isAuthenticated = TRUE, !.tok = t]

\* mutant: clearAuth removes the 'token' key only
clearAuth_TokenOnly(st) ==
    [auth |-> Anonymous(st.auth), tok |-> Null, ref |-> st.ref]

clearAuth(st) ==
    [auth |-> Anonymous(st.auth), tok |-> Null, ref |-> Null]

(* extraReducers, variant A *)
LoginPendingA(st) ==
    [st EXCEPT !.auth.isLoading = TRUE, !.auth.error = Null]

LoginFulfilledA(st, p) ==
    [auth |-> [st.auth EXCEPT !.isLoading = FALSE, !.isAuthenticated = TRUE,
                              !.user = p.user, !.token = p.access_token,
                              !.refreshToken = p.refresh_token],
     tok |-> p.access_token, ref |-> p.refresh_token]

LoginRejectedA(st, msg) ==
    [st EXCEPT !.auth.isLoading = FALSE, !.auth.error = msg]

RegisterPendingA(st) ==
    [st EXCEPT !.auth.isLoading = TRUE, !.auth.error = Null]

RegisterFulfilledA(st, p) ==
    [auth |-> [st.auth EXCEPT !.isLoading = FALSE, !.isAuthenticated = TRUE,
                              !.user = p.user, !.token = p.access_token,
                              !.refreshToken = p.refresh_token],
     tok |-> p.access_token, ref |-> p.refresh_token]

RegisterRejectedA(st, msg) ==
    [st EXCEPT !.auth.isLoading = FALSE, !.auth.error = msg]

RefreshTokenFulfilledA(st, p) ==
    [auth |-> [st.auth EXCEPT !.token = p.access_token,
                              !.refreshToken = p.refresh_token],
     tok |-> p.access_token, ref |-> p.refresh_token]

RefreshTokenRejectedA(st) ==
    [auth |-> Anonymous(st.auth), tok |-> Null, ref |-> Null]

LogoutFulfilledA(st) ==
    [auth |-> Anonymous(st.auth), tok |-> Null, ref |-> Null]

GetCurrentUserPendingA(st) ==
    [st EXCEPT !.auth.isLoading = TRUE]

GetCurrentUserFulfilledA(st, p) ==
    [st EXCEPT !.auth.isLoading = FALSE, !.auth.user = p.user]

GetCurrentUserRejectedA(st, msg) ==
    [st EXCEPT !.auth.isLoading = FALSE, !.auth.error = msg]

(* extraReducers, variant B; p = { user, token, refreshToken } *)
LoginPendingB(st) ==
    [st EXCEPT !.auth.isLoading = TRUE, !.auth.error = Null]

LoginFulfilledB(st, p) ==
    [st EXCEPT !.auth.isLoading = FALSE, !.auth.user = p.user,
               !.auth.token = p.token, !.auth.refreshToken = p.refreshToken,
               !.auth.isAuthenticated = TRUE, !.auth.error = Null]

LoginRejectedB(st, msg) ==
    [st EXCEPT !.auth = [Anonymous(st.auth) EXCEPT !.isLoading = FALSE,
                                                   !.error = msg]]

RegisterPendingB(st) ==
    [st EXCEPT !.auth.isLoading = TRUE, !.auth.error = Null]

RegisterFulfilledB(st, p) ==
    [st EXCEPT !.auth.isLoading = FALSE, !.auth.user = p.user,
               !.auth.token = p.token, !.auth.refreshToken = p.refreshToken,
               !.auth.isAuthenticated = TRUE, !.auth.error = Null]

RegisterRejectedB(st, msg) ==
    [st EXCEPT !.auth = [Anonymous(st.auth) EXCEPT !.isLoading = FALSE,
                                                   !.error = msg]]

GetCurrentUserFulfilledB(st, p) ==
    [st EXCEPT !.auth.user = p.user]

GetCurrentUserRejectedB(st) ==
    [auth |-> Anonymous(st.auth), tok |-> Null, ref |-> Null]

LogoutFulfilledB(st) ==
    [st EXCEPT !.auth = [Anonymous(st.auth) EXCEPT !.error = Null]]

(* thunk bodies after their await, followed by the reducer of the action   *)
(* they dispatch; r is the settled result of the authApi call.             *)
(* Each returns [st, type] with type the dispatched action's suffix.       *)

Settled(st, type) == [st |-> st, type |-> type]

loginA(st, r) ==
    IF r.ok THEN Settled(LoginFulfilledA(st, r.data), "fulfilled")
    ELSE Settled(LoginRejectedA(st, ErrorMessage(r, "Login failed")), "rejected")

registerA(st, r) ==
    IF r.ok THEN Settled(RegisterFulfilledA(st, r.data), "fulfilled")
    ELSE Settled(RegisterRejectedA(st, ErrorMessage(r, "Registration failed")),
                 "rejected")

refreshTokenA(st, r) ==
    IF r.ok THEN Settled(RefreshTokenFulfilledA(st, r.data), "fulfilled")
    ELSE Settled(RefreshTokenRejectedA(st), "rejected")

\* try { await authApi.logout() } catch (error) { }
logoutA(st, r) ==
    Settled(LogoutFulfilledA(st), "fulfilled")

getCurrentUserA(st, r) ==
    IF r.ok THEN Settled(GetCurrentUserFulfilledA(st, r.data), "fulfilled")
    ELSE Settled(GetCurrentUserRejectedA(st,
                    ErrorMessage(r, "Failed to get user info")), "rejected")

\* localStorage.setItem twice, return { user, token, refreshToken }
StoreTokensB(st, d) ==
    [st EXCEPT !.tok = d.access_token, !.ref = d.refresh_token]
PayloadB(d) ==
    [user |-> d.user, token |-> d.access_token, refreshToken |-> d.refresh_token]

\* mutant: the thunk returns the payload without writing localStorage
loginB_NoStore(st, r) ==
    IF r.ok
    THEN Settled(LoginFulfilledB(st, PayloadB(r.data)), "fulfilled")
    ELSE Settled(LoginRejectedB(st, ErrorMessage(r, "Login failed")), "rejected")

loginB(st, r) ==
    IF r.ok
    THEN Settled(LoginFulfilledB(StoreTokensB(st, r.data), PayloadB(r.data)),
                 "fulfilled")
    ELSE Settled(LoginRejectedB(st, ErrorMessage(r, "Login failed")), "rejected")

registerB(st, r) ==
    IF r.ok
    THEN Settled(RegisterFulfilledB(StoreTokensB(st, r.data), PayloadB(r.data)),
                 "fulfilled")
    ELSE Settled(RegisterRejectedB(st, ErrorMessage(r, "Registration failed")),
                 "rejected")

getCurrentUserB(st, r) ==
    IF r.ok THEN Settled(GetCurrentUserFulfilledB(st, r.data), "fulfilled")
    ELSE Settled(GetCurrentUserRejectedB(st), "rejected")

\* mutant: the thunk lets the API error escape, so nothing is cleared when
\* the backend logout call fails
logoutB_OnlyOnSuccess(st, r) ==
    IF r.ok
    THEN Settled(LogoutFulfilledB([st EXCEPT !.tok = Null, !.ref = Null]), "fulfilled")
    ELSE Settled(st, "rejected")

\* try { await authApi.logout() } catch (error) { }; removeItem twice
logoutB(st, r) ==
    Settled(LogoutFulfilledB([st EXCEPT !.tok = Null, !.ref = Null]), "fulfilled")

\* the fallback string of each thunk's rejectWithValue
Fallback(v, op) ==
    CASE op = "login" -> "Login failed"
      [] op = "register" -> "Registration failed"
      [] op = "refreshToken" -> "Token refresh failed"
      [] op = "getCurrentUser" ->
            IF v = "A" THEN "Failed to get user info" ELSE "Failed to get user"
      [] OTHER -> Null

\* the thunks each variant exports
ThunksOf(v) ==
    IF v = "A" THEN {"login", "register", "refreshToken", "logout", "getCurrentUser"}
    ELSE {"login", "register", "logout", "getCurrentUser"}

\* dispatch(thunk()): the pending reducer, where the slice has one
Pending(v, op, st) ==
    CASE v = "A" /\ op = "login" -> LoginPendingA(st)
      [] v = "A" /\ op = "register" -> RegisterPendingA(st)
      [] v = "A" /\ op = "getCurrentUser" -> GetCurrentUserPendingA(st)
      [] v = "B" /\ op = "login" -> LoginPendingB(st)
      [] v = "B" /\ op = "register" -> RegisterPendingB(st)
      [] OTHER -> st

\* the caller's continuation once the API call settled with r
Complete(v, op, st, r) ==
    CASE v = "A" /\ op = "login" -> loginA(st, r)
      [] v = "A" /\ op = "register" -> registerA(st, r)
      [] v = "A" /\ op = "refreshToken" -> refreshTokenA(st, r)
      [] v = "A" /\ op = "logout" -> logoutA(st, r)
      [] v = "A" /\ op = "getCurrentUser" -> getCurrentUserA(st, r)
      [] v = "B" /\ op = "login" -> loginB(st, r)
      [] v = "B" /\ op = "register" -> registerB(st, r)
      [] v = "B" /\ op = "logout" -> logoutB(st, r)
      [] v = "B" /\ op = "getCurrentUser" -> getCurrentUserB(st, r)
      [] OTHER -> Settled(st, IF r.ok THEN "fulfilled" ELSE "rejected")

----------------------------------------------------------------------------
(* Deals slice and documents slice (documentsSlice.ts holds both).          *)
(* ds, os: the slice's state. A Deal is modelled by its id, the data its    *)
(* last update wrote (name, description, ...) and ai_processing_status; a   *)
(* Document by its id and document_type. The filters and the pagination of  *)
(* the deals slice are left out: the backend returns Deal[] (dealsApi.ts),  *)
(* so fetchDeals.fulfilled never finds payload.pagination.                  *)

\* number of deals, and of documents, the backend creates
MaxDeals == 2
\* the same number where lists of three entries are followed
MaxListed == 3
\* number of thunks of the two slices in flight together
MaxReqs == 2

\* the ids the backend can give: server.cap is the number of deals, and
\* of documents, it creates
DealIds == 1..server.cap
DocIds == 1..server.cap
DealData == {"a", "b"}
AiStatuses == {"pending", "processing", "completed"}
DocTypes == {"nda", "contract"}

NoDeal == [id |-> 0, data |-> Null, ai |-> Null]
NoDocument == [id |-> 0, document_type |-> Null]

\* the Deal and Document objects a view can hold and pass to a reducer
AnyDeal == [id : DealIds, data : DealData, ai : AiStatuses]
AnyDocument == [id : DocIds, document_type : DocTypes]

\* array.findIndex(x => x.id === id): 0 stands for -1
RECURSIVE FindIndexFrom(_, _, _)
FindIndexFrom(list, id, i) ==
    IF i > Len(list) THEN 0
    ELSE IF list[i].id = id THEN i
    ELSE FindIndexFrom(list, id, i + 1)
FindIndex(list, id) == FindIndexFrom(list, id, 1)

\* array.filter(x => x.id !== id)
RECURSIVE Without(_, _)
Without(list, id) ==
    IF list = <<>> THEN <<>>
    ELSE IF Head(list).id = id THEN Without(Tail(list), id)
    ELSE <<Head(list)>> \o Without(Tail(list), id)

\* const initialState: DealsState
dealsInitialState ==
    [deals |-> <<>>, currentDeal |-> NoDeal, isLoading |-> FALSE, error |-> Null]

\* const initialState: DocumentsState
documentsInitialState ==
    [documents |-> <<>>, currentDocument |-> NoDocument, isLoading |-> FALSE,
     error |-> Null, uploadProgress |-> 0, isUploading |-> FALSE]

(* reducers of the deals slice *)
dealsClearError(ds) == [ds EXCEPT !.error = Null]
setCurrentDeal(ds, d) == [ds EXCEPT !.currentDeal = d]

\* the pending case of fetchDeals, fetchDealById, createDeal, updateDeal,
\* deleteDeal and startAIProcessing
DealsPending(ds) == [ds EXCEPT !.isLoading = TRUE, !.error = Null]

\* the rejected case of the same six thunks
DealsRejected(ds, msg) == [ds EXCEPT !.isLoading = FALSE, !.error = msg]

\* state.deals = action.payload.deals || action.payload
FetchDealsFulfilled(ds, payload) ==
    [ds EXCEPT !.isLoading = FALSE, !.deals = payload]

\* state.currentDeal = action.payload
FetchDealByIdFulfilled(ds, p) == [ds EXCEPT !.isLoading = FALSE, !.currentDeal = p]

\* state.deals.unshift(action.payload)
CreateDealFulfilled(ds, p) ==
    [ds EXCEPT !.isLoading = FALSE, !.deals = <<p>> \o @, !.currentDeal = p]

\* mutant: only the open deal takes the payload, the list keeps its entry
UpdateDealFulfilled_CurrentOnly(ds, p) ==
    [ds EXCEPT !.isLoading = FALSE,
               !.currentDeal = IF @.id = p.id THEN p ELSE @]

UpdateDealFulfilled(ds, p) ==
    LET index == FindIndex(ds.deals, p.id)
    IN [ds EXCEPT !.isLoading = FALSE,
                  !.deals = IF index /= 0 THEN [@ EXCEPT ![index] = p] ELSE @,
                  !.currentDeal = IF @.id = p.id THEN p ELSE @]

\* mutant: the entries that stay come out in the opposite order,
\* state.deals.filter(deal => deal.id !== id).reverse()
DeleteDealFulfilled_Reversed(ds, id) ==
    LET kept == Without(ds.deals, id)
    IN [ds EXCEPT !.isLoading = FALSE,
                  !.deals = [i \in 1..Len(kept) |-> kept[Len(kept) + 1 - i]],
                  !.currentDeal = IF @.id = id THEN NoDeal ELSE @]

DeleteDealFulfilled(ds, id) ==
    [ds EXCEPT !.isLoading = FALSE,
               !.deals = Without(@, id),
               !.currentDeal = IF @.id = id THEN NoDeal ELSE @]

\* if (state.currentDeal) state.currentDeal.ai_processing_status = 'processing'
StartAIProcessingFulfilled(ds, payload) ==
    [ds EXCEPT !.isLoading = FALSE,
               !.currentDeal = IF @ /= NoDeal THEN [@ EXCEPT !.ai = "processing"]
                               ELSE @]

\* getDealStatus.fulfilled: the status fields of the payload go into
\* currentDeal when currentDeal?.id === payload.deal_id; the slice has no
\* pending and no rejected case for getDealStatus
GetDealStatusFulfilled(ds, st) ==
    [ds EXCEPT !.currentDeal = IF @ /= NoDeal /\ @.id = st.deal_id
                               THEN [@ EXCEPT !.ai = st.ai] ELSE @]

(* reducers of the documents slice *)
documentsClearError(os) == [os EXCEPT !.error = Null]
setCurrentDocument(os, d) == [os EXCEPT !.currentDocument = d]
setUploadProgress(os, n) == [os EXCEPT !.uploadProgress = n]
setUploading(os, b) ==
    [os EXCEPT !.isUploading = b, !.uploadProgress = IF ~b THEN 0 ELSE @]

FetchDocumentsPending(os) == [os EXCEPT !.isLoading = TRUE, !.error = Null]
FetchDocumentsFulfilled(os, payload) ==
    [os EXCEPT !.isLoading = FALSE, !.documents = payload]
FetchDocumentsRejected(os, msg) == [os EXCEPT !.isLoading = FALSE, !.error = msg]

UploadDocumentPending(os) ==
    [os EXCEPT !.isLoading = TRUE, !.isUploading = TRUE, !.error = Null,
               !.uploadProgress = 0]
UploadDocumentFulfilled(os, p) ==
    [os EXCEPT !.isLoading = FALSE, !.isUploading = FALSE, !.uploadProgress = 100,
               !.documents = <<p>> \o @]
UploadDocumentRejected(os, msg) ==
    [os EXCEPT !.isLoading = FALSE, !.isUploading = FALSE, !.uploadProgress = 0,
               !.error = msg]

DeleteDocumentPending(os) == [os EXCEPT !.isLoading = TRUE, !.error = Null]
DeleteDocumentFulfilled(os, id) ==
    [os EXCEPT !.isLoading = FALSE,
               !.documents = Without(@, id),
               !.currentDocument = IF @.id = id THEN NoDocument ELSE @]
DeleteDocumentRejected(os, msg) == [os EXCEPT !.isLoading = FALSE, !.error = msg]

\* getDocumentStatus.fulfilled: { ...entry, ...payload } for the entry
\* findIndex locates and for currentDocument when it has the payload's id;
\* no pending and no rejected case
GetDocumentStatusFulfilled(os, p) ==
    LET index == FindIndex(os.documents, p.id)
    IN [os EXCEPT !.documents = IF index /= 0
                                 THEN [@ EXCEPT ![index].document_type = p.document_type]
                                 ELSE @,
                  !.currentDocument = IF @ /= NoDocument /\ @.id = p.id
                                      THEN [@ EXCEPT !.document_type = p.document_type]
                                      ELSE @]

(* the thunks of the two slices *)
DealOps ==
    {"fetchDeals", "fetchDealById", "createDeal", "updateDeal", "deleteDeal",
     "startAIProcessing", "getDealStatus"}
DocOps == {"fetchDocuments", "uploadDocument", "deleteDocument", "getDocumentStatus"}

\* the fallback string of each thunk's rejectWithValue
ResourceFallback(op) ==
    CASE op = "fetchDeals" -> "Failed to fetch deals"
      [] op = "fetchDealById" -> "Failed to fetch deal"
      [] op = "createDeal" -> "Failed to create deal"
      [] op = "updateDeal" -> "Failed to update deal"
      [] op = "deleteDeal" -> "Failed to delete deal"
      [] op = "startAIProcessing" -> "Failed to start AI processing"
      [] op = "getDealStatus" -> "Failed to get deal status"
      [] op = "fetchDocuments" -> "Failed to fetch documents"
      [] op = "uploadDocument" -> "Failed to upload document"
      [] op = "deleteDocument" -> "Failed to delete document"
      [] op = "getDocumentStatus" -> "Failed to get document status"
      [] OTHER -> Null

\* a response of the deals or documents API: response.data is deal, deals,
\* status, document or documents, by endpoint
ResourceResp(ok, detail) ==
    [ok |-> ok, detail |-> detail, deal |-> NoDeal, deals |-> <<>>,
     status |-> [deal_id |-> 0, ai |-> Null], document |-> NoDocument, documents |-> <<>>]

\* the thunk's body after its await and the reducer of the action it
\* dispatches; arg is the thunk's argument, r the API call's outcome
CompleteDeal(op, arg, ds, r) ==
    IF ~r.ok
    THEN IF op = "getDealStatus" THEN ds
         ELSE DealsRejected(ds, ErrorMessage(r, ResourceFallback(op)))
    ELSE CASE op = "fetchDeals" -> FetchDealsFulfilled(ds, r.deals)
           [] op = "fetchDealById" -> FetchDealByIdFulfilled(ds, r.deal)
           [] op = "getDealStatus" -> GetDealStatusFulfilled(ds, r.status)
           [] op = "createDeal" -> CreateDealFulfilled(ds, r.deal)
           [] op = "updateDeal" -> UpdateDealFulfilled(ds, r.deal)
           [] op = "deleteDeal" -> DeleteDealFulfilled(ds, arg.id)
           [] op = "startAIProcessing" -> StartAIProcessingFulfilled(ds, r.deal)
           [] OTHER -> ds

PendingDocument(op, os) ==
    CASE op = "fetchDocuments" -> FetchDocumentsPending(os)
      [] op = "uploadDocument" -> UploadDocumentPending(os)
      [] op = "deleteDocument" -> DeleteDocumentPending(os)
      [] OTHER -> os

CompleteDocument(op, arg, os, r) ==
    LET msg == ErrorMessage(r, ResourceFallback(op))
    IN CASE op = "fetchDocuments" ->
              IF r.ok THEN FetchDocumentsFulfilled(os, r.documents)
              ELSE FetchDocumentsRejected(os, msg)
         [] op = "uploadDocument" ->
              IF r.ok THEN UploadDocumentFulfilled(os, r.document)
              ELSE UploadDocumentRejected(os, msg)
         [] op = "deleteDocument" ->
              IF r.ok THEN DeleteDocumentFulfilled(os, arg.id)
              ELSE DeleteDocumentRejected(os, msg)
         [] op = "getDocumentStatus" ->
              IF r.ok THEN GetDocumentStatusFulfilled(os, r.document) ELSE os
         [] OTHER -> os

----------------------------------------------------------------------------
(* State *)

\* A call: what the caller sees (status, result), the requests it has open
\* (chain: the original request first, then the refresh each 401 handler
\* awaits), and a record of what happened on its behalf:
\*   n401          401 responses the original request received
\*   rt401         whether a refresh token was stored at its first 401
\*   nRefresh      requests sent to the refresh endpoint
\*   nReissue      times the original request was sent again
\*   refreshFailed whether a refresh request was answered with a failure
\*   afterLogout   whether a logout completed while the call was in flight
\*                 and no login or register was fulfilled since
IdleCall ==
    [status |-> "idle", client |-> "auth", op |-> "raw",
     chain |-> <<>>, result |-> NoResult,
     n401 |-> 0, rt401 |-> "none", nRefresh |-> 0, nReissue |-> 0,
     refreshFailed |-> FALSE, afterLogout |-> FALSE]

NewCall(client, op, body) ==
    [IdleCall EXCEPT !.status = "pending", !.client = client, !.op = op,
                     !.chain = <<NewRequest(body)>>]

\* What the latest step did:
\*   kind   "request" (a caller sent a request), or for the arrival of a
\*          response: "settled" (the caller got its result), "reissued" (the
\*          original request was sent again), "refresh" (a request went to
\*          the refresh endpoint: a new one, or a refresh sent again);
\*          "none" for a step that sends and receives nothing
\*   hdr    the Authorization header of the request the step sent
\*   resp   the response that arrived, depth the length of the chain it
\*          arrived on (1: it answers the original request)
\*   call   the call as the step left it
NoEvent ==
    [kind |-> "none", c |-> 0, hdr |-> NoHeader, depth |-> 0,
     resp |-> FailResp(NoResponse, Null), call |-> IdleCall]

Sent(c, call, hdr) ==
    [NoEvent EXCEPT !.kind = "request", !.c = c, !.hdr = hdr, !.call = call]

Store == [auth |-> auth, tok |-> lsToken, ref |-> lsRefresh]
World == [tok |-> lsToken, ref |-> lsRefresh, loc |-> location]

\* the argument of a thunk of the deals or documents slice: the id it
\* names (0: none) and the data it sends (Null: none)
NoArg == [id |-> 0, data |-> Null]

\* A thunk of the deals or documents slice in flight: "sent" until the
\* backend has handled the request, then "served" until the response
\* arrives. A record of what happened around it:
\*   older    the request slots that were in flight when it was dispatched
\*            and still are
\*   passedBy for an updateDeal, the updateDeal responses for the same deal
\*            that arrived while it was in flight: the data each sent,
\*            whether it succeeded, whether it was dispatched later
\*   stale    the deal ids whose deleteDeal was fulfilled while it was in
\*            flight
IdleReq ==
    [status |-> "idle", op |-> "none", arg |-> NoArg,
     resp |-> ResourceResp(FALSE, Null), older |-> {}, passedBy |-> {},
     stale |-> {}]

ReqIds == 1..MaxReqs

\* What the latest step of the deals and documents slices did: kind is
\* "dispatched", "served" or "arrived" ("none": a reducer, or no step yet),
\* req the thunk it concerned, type "fulfilled" or "rejected" for an arrival.
\* open is, for an arrival, the id of the deal (for a thunk of the deals
\* slice) or document that was open when the response arrived, 0 for none.
NoStep == [kind |-> "none", req |-> IdleReq, type |-> "none", open |-> 0]

\* the backend before any deal or document was created
EmptyServer ==
    [deals |-> <<>>, nDeals |-> 0, documents |-> <<>>, nDocuments |-> 0,
     cap |-> MaxDeals]

ResourceInit ==
    /\ server \in { [EmptyServer EXCEPT !.cap = n] : n \in {MaxDeals, MaxListed} }
    /\ deals = dealsInitialState
    /\ documents = documentsInitialState
    /\ reqs = [r \in ReqIds |-> IdleReq]
    /\ rlast = NoStep

\* localStorage as an earlier session left it: empty, or holding a pair
StoredPairs ==
    {<<Null, Null>>} \cup { <<p.access_token, p.refresh_token>> : p \in TokenPairs }

\* the front end after the page was loaded
LoadedPage ==
    /\ variant \in {"A", "B"}
    /\ \E s \in StoredPairs :
          /\ lsToken = s[1]
          /\ lsRefresh = s[2]
          /\ auth = initialState(s[1], s[2])
    /\ location = "/dashboard"
    /\ calls = [c \in CallIds |-> IdleCall]
    /\ last = NoEvent
    /\ ResourceInit

\* validRefresh = Null: a backend whose answers are not tied to the refresh
\* token it is sent (RespondOk and RespondFail answer freely)
Init ==
    /\ LoadedPage
    /\ validRefresh = Null
    /\ server = EmptyServer

SetStore(st) ==
    /\ auth' = st.auth
    /\ lsToken' = st.tok
    /\ lsRefresh' = st.ref

----------------------------------------------------------------------------
(* Actions *)

\* a new call takes the first slot that holds no call in flight
FreeSlot(c) ==
    /\ calls[c].status = "idle"
    /\ \A d \in CallIds : d < c => calls[d].status = "pending"

\* dispatch(login(...)), dispatch(register(...)), ...: the pending reducer
\* runs and the request leaves through the auth client
\* refreshToken sends state.auth.refreshToken as it is (the ! is erased at
\* compile time), null when the state holds none
Dispatch(c, op) ==
    LET call == NewCall("auth", op,
                        IF op = "refreshToken" THEN auth.refreshToken ELSE Null)
    IN /\ FreeSlot(c)
       /\ op \in ThunksOf(variant)
       /\ SetStore(Pending(variant, op, Store))
       /\ calls' = [calls EXCEPT ![c] = call]
       /\ last' = Sent(c, call, RequestInterceptor(NoHeader, lsToken))
       /\ UNCHANGED <<variant, location, validRefresh>>
       /\ UNCHANGED resourceVars

\* a component calls an API method directly
Request(c, client) ==
    LET call == NewCall(client, "raw", Null)
    IN /\ FreeSlot(c)
       /\ calls' = [calls EXCEPT ![c] = call]
       /\ last' = Sent(c, call, RequestInterceptor(NoHeader, lsToken))
       /\ UNCHANGED <<variant, lsToken, lsRefresh, location, auth, validRefresh>>
       /\ UNCHANGED resourceVars

\* the endpoint the chain's top request went to
Endpoint(call) ==
    IF Len(call.chain) > 1 THEN "refresh" ELSE call.op

\* The response to the open request of call c arrives: the client's
\* interceptors run, and when the call settles, so does the thunk's body
\* and the reducer of the action it dispatches.
Deliver(c, resp) ==
    LET call == calls[c]
        k == Len(call.chain)
        out == Receive(call.client, call.chain, resp, World)
        st == [auth |-> auth, tok |-> out.w.tok, ref |-> out.w.ref]
        done == IF out.settled
                THEN Complete(variant, call.op, st, out.result)
                ELSE Settled(st, "pending")
        n == Len(out.chain)
        after == [call EXCEPT
               !.status = done.type,
               !.chain = out.chain,
               !.result = out.result,
               !.n401 = IF k = 1 /\ resp.status = 401 THEN @ + 1 ELSE @,
               !.rt401 = IF k = 1 /\ resp.status = 401 /\ @ = "none"
                         THEN (IF Truthy(lsRefresh) THEN "yes" ELSE "no")
                         ELSE @,
               !.nRefresh = IF n > k \/ (n = k - 1 /\ n >= 2) THEN @ + 1 ELSE @,
               !.nReissue = IF n = 1 /\ k = 2 THEN @ + 1 ELSE @,
               !.refreshFailed = @ \/ (k > 1 /\ ~resp.ok)]
    IN /\ n <= MaxNest
       /\ SetStore(done.st)
       /\ location' = out.w.loc
       /\ calls' = [d \in CallIds |->
                       IF d = c THEN (IF out.settled THEN IdleCall ELSE after)
                       ELSE IF calls[d].status /= "pending" THEN calls[d]
                       ELSE IF out.settled /\ call.op = "logout"
                            THEN [calls[d] EXCEPT !.afterLogout = TRUE]
                       ELSE IF done.type = "fulfilled" /\ call.op \in {"login", "register"}
                            THEN [calls[d] EXCEPT !.afterLogout = FALSE]
                       ELSE calls[d]]
       /\ last' = [kind |-> IF out.settled THEN "settled"
                            ELSE IF n = 1 THEN "reissued" ELSE "refresh",
                   c |-> c, hdr |-> out.hdr, depth |-> k, resp |-> resp,
                   call |-> after]
       /\ UNCHANGED variant
       /\ UNCHANGED resourceVars

RespondOk(c) ==
    /\ calls[c].status = "pending"
    /\ \E resp \in OkResponses(Endpoint(calls[c])) : Deliver(c, resp)
    /\ UNCHANGED validRefresh

RespondFail(c) ==
    /\ calls[c].status = "pending"
    /\ \E resp \in FailResponses : Deliver(c, resp)
    /\ UNCHANGED validRefresh

ClearError ==
    /\ SetStore(clearError(Store))
    /\ last' = NoEvent
    /\ UNCHANGED <<variant, location, calls, validRefresh>>
    /\ UNCHANGED resourceVars

SetToken ==
    /\ variant = "A"
    /\ \E t \in AccessTokens : SetStore(setToken(Store, t))
    /\ last' = NoEvent
    /\ UNCHANGED <<variant, location, calls, validRefresh>>
    /\ UNCHANGED resourceVars

ClearAuth ==
    /\ SetStore(clearAuth(Store))
    /\ last' = NoEvent
    /\ UNCHANGED <<variant, location, calls, validRefresh>>
    /\ UNCHANGED resourceVars


\* The HTTP clients alone: components call the API methods directly while
\* the session is set or cleared under them.
InitHttp == Init /\ variant = "A"

NextHttp ==
    \/ \E c \in CallIds, client \in Clients : Request(c, client)
    \/ \E c \in CallIds : RespondOk(c)
    \/ \E c \in CallIds : RespondFail(c)
    \/ SetToken
    \/ ClearAuth

SpecHttp == InitHttp /\ [][NextHttp]_vars

\* The auth slice alone: every call is a thunk of the slice.
ThunkIds == 1..MaxThunks

NextAuth ==
    \/ \E c \in ThunkIds, op \in AuthOps : Dispatch(c, op)
    \/ \E c \in ThunkIds : RespondOk(c)
    \/ \E c \in ThunkIds : RespondFail(c)
    \/ ClearError
    \/ SetToken
    \/ ClearAuth

SpecAuth == Init /\ [][NextAuth]_vars

\* The session as a whole, one call at a time: a thunk of the auth slice
\* or a request a component makes through one of the three clients.
NextSession ==
    \/ \E c \in ThunkIds, op \in AuthOps : Dispatch(c, op)
    \/ \E c \in ThunkIds, client \in Clients : Request(c, client)
    \/ \E c \in ThunkIds : RespondOk(c)
    \/ \E c \in ThunkIds : RespondFail(c)
    \/ ClearError
    \/ SetToken
    \/ ClearAuth

SpecSession == Init /\ [][NextSession]_vars

\* A backend that rotates the refresh token: /auth/refresh accepts the
\* refresh token it issued last, answers with the next pair and from then
\* on rejects the token it was sent; any other refresh token is rejected.
\* Other endpoints answer 200, or 401 for an access token that expired.
RotatedPair(r) == CHOOSE p \in TokenPairs : p.refresh_token /= r

RespondRotating(c) ==
    LET call == calls[c]
        k == Len(call.chain)
        next == RotatedPair(validRefresh)
    IN /\ call.status = "pending"
       /\ IF k > 1
          THEN IF call.chain[k].body = validRefresh
               THEN /\ Deliver(c, OkResp([access_token |-> next.access_token,
                                           refresh_token |-> next.refresh_token,
                                           user |-> Null]))
                    /\ validRefresh' = next.refresh_token
               ELSE /\ \E resp \in FailResponses : Deliver(c, resp)
                    /\ UNCHANGED validRefresh
          ELSE /\ \E resp \in OkResponses(Endpoint(call)) \cup {FailResp(401, Null)} :
                     Deliver(c, resp)
               /\ UNCHANGED validRefresh

InitRotate ==
    /\ LoadedPage
    /\ server = EmptyServer
    /\ variant = "A"
    /\ lsRefresh = "R1"
    /\ validRefresh = lsRefresh

NextRotate ==
    \/ \E c \in CallIds : Request(c, "auth")
    \/ \E c \in CallIds : RespondRotating(c)

SpecRotate == InitRotate /\ [][NextRotate]_vars

\* A logout racing a getCurrentUser: getCurrentUser is dispatched, and
\* while it is in flight the user logs out.
NextRace ==
    \/ Dispatch(1, "getCurrentUser")
    \/ Dispatch(2, "logout")
    \/ \E c \in CallIds : RespondOk(c)
    \/ \E c \in CallIds : RespondFail(c)

\* the application was loaded with a session in localStorage
InitRace == Init /\ lsToken = "T1"

SpecRace == InitRace /\ [][NextRace]_vars

----------------------------------------------------------------------------
(* The deals and documents slices against a backend that stores the deals   *)
(* and documents and gives each a new id. A thunk takes three steps: it is  *)
(* dispatched (pending reducer, request sent), the backend handles the      *)
(* request, the response arrives (thunk body and reducer). Requests are     *)
(* handled, and responses arrive, in any order.                             *)

\* a new thunk takes the first slot that holds none in flight
FreeReq(r) ==
    /\ reqs[r].status = "idle"
    /\ \A q \in ReqIds : q < r => reqs[q].status /= "idle"

NewReq(op, arg) ==
    [IdleReq EXCEPT !.status = "sent", !.op = op, !.arg = arg,
                    !.older = { q \in ReqIds : reqs[q].status /= "idle" }]

\* the arguments a thunk can be dispatched with: the thunks take the id
\* they are given, whether or not the slice holds a deal or document with it
Args(op) ==
    CASE op = "createDeal" -> { [id |-> 0, data |-> d] : d \in DealData }
      [] op = "updateDeal" -> { [id |-> i, data |-> d] : i \in DealIds, d \in DealData }
      [] op \in {"fetchDealById", "deleteDeal", "startAIProcessing", "getDealStatus"} ->
            { [id |-> i, data |-> Null] : i \in DealIds }
      [] op = "uploadDocument" -> { [id |-> 0, data |-> t] : t \in DocTypes }
      [] op \in {"deleteDocument", "getDocumentStatus"} ->
            { [id |-> i, data |-> Null] : i \in DocIds }
      [] OTHER -> {NoArg}

\* dispatch(fetchDeals()), dispatch(createDeal(data)), ...
DispatchDeal(r, op) ==
    /\ FreeReq(r)
    /\ op \in DealOps
    \* the backend creates server.cap deals at most
    /\ op = "createDeal" =>
          server.nDeals + Cardinality({ q \in ReqIds : /\ reqs[q].status = "sent"
                                                       /\ reqs[q].op = op }) < server.cap
    /\ \E arg \in Args(op) :
          /\ reqs' = [reqs EXCEPT ![r] = NewReq(op, arg)]
          /\ rlast' = [NoStep EXCEPT !.kind = "dispatched", !.req = NewReq(op, arg)]
    \* the slice has no pending case for getDealStatus
    /\ deals' = IF op = "getDealStatus" THEN deals ELSE DealsPending(deals)
    /\ UNCHANGED <<server, documents>>
    /\ UNCHANGED sessionVars

\* dispatch(fetchDocuments()), dispatch(uploadDocument(...)), ...
DispatchDocument(r, op) ==
    /\ FreeReq(r)
    /\ op \in DocOps
    \* the backend creates server.cap documents at most
    /\ op = "uploadDocument" =>
          server.nDocuments + Cardinality({ q \in ReqIds : /\ reqs[q].status = "sent"
                                                           /\ reqs[q].op = op }) < server.cap
    /\ \E arg \in Args(op) :
          /\ reqs' = [reqs EXCEPT ![r] = NewReq(op, arg)]
          /\ rlast' = [NoStep EXCEPT !.kind = "dispatched", !.req = NewReq(op, arg)]
    /\ documents' = PendingDocument(op, documents)
    /\ UNCHANGED <<server, deals>>
    /\ UNCHANGED sessionVars

\* the backend's answer to a request and the tables it leaves; a request
\* for an id the backend does not hold is answered with an error
Handle(op, arg, sv) ==
    LET i == FindIndex(sv.deals, arg.id)
        j == FindIndex(sv.documents, arg.id)
        ok == ResourceResp(TRUE, Null)
        Served(tables, resp) == [sv |-> tables, resp |-> resp]
        NotFound(tables) == Served(tables, ResourceResp(FALSE, "Bad"))
    IN CASE op = "fetchDeals" -> Served(sv, [ok EXCEPT !.deals = sv.deals])
         [] op = "fetchDealById" ->
              IF i = 0 THEN NotFound(sv)
              ELSE Served(sv, [ok EXCEPT !.deal = sv.deals[i]])
         [] op = "getDealStatus" ->
              IF i = 0 THEN NotFound(sv)
              ELSE Served(sv, [ok EXCEPT !.status = [deal_id |-> arg.id,
                                                     ai |-> sv.deals[i].ai]])
         [] op = "createDeal" ->
              LET d == [id |-> sv.nDeals + 1, data |-> arg.data, ai |-> "pending"]
              IN Served([sv EXCEPT !.deals = Append(@, d), !.nDeals = @ + 1],
                        [ok EXCEPT !.deal = d])
         [] op = "updateDeal" ->
              IF i = 0 THEN NotFound(sv)
              ELSE LET d == [sv.deals[i] EXCEPT !.data = arg.data]
                   IN Served([sv EXCEPT !.deals[i] = d], [ok EXCEPT !.deal = d])
         [] op = "deleteDeal" ->
              IF i = 0 THEN NotFound(sv)
              ELSE Served([sv EXCEPT !.deals = Without(@, arg.id)], ok)
         [] op = "startAIProcessing" ->
              IF i = 0 THEN NotFound(sv)
              ELSE Served([sv EXCEPT !.deals[i].ai = "processing"], ok)
         [] op = "fetchDocuments" -> Served(sv, [ok EXCEPT !.documents = sv.documents])
         [] op = "uploadDocument" ->
              LET d == [id |-> sv.nDocuments + 1, document_type |-> arg.data]
              IN Served([sv EXCEPT !.documents = Append(@, d), !.nDocuments = @ + 1],
                        [ok EXCEPT !.document = d])
         [] op = "deleteDocument" ->
              IF j = 0 THEN NotFound(sv)
              ELSE Served([sv EXCEPT !.documents = Without(@, arg.id)], ok)
         [] op = "getDocumentStatus" ->
              IF j = 0 THEN NotFound(sv)
              ELSE Served(sv, [ok EXCEPT !.document = sv.documents[j]])
         [] OTHER -> NotFound(sv)

\* the backend handles the request of thunk r
Serve(r) ==
    LET out == Handle(reqs[r].op, reqs[r].arg, server)
        req == [reqs[r] EXCEPT !.status = "served", !.resp = out.resp]
    IN /\ reqs[r].status = "sent"
       /\ server' = out.sv
       /\ reqs' = [reqs EXCEPT ![r] = req]
       /\ rlast' = [NoStep EXCEPT !.kind = "served", !.req = req]
       /\ UNCHANGED <<deals, documents>>
       /\ UNCHANGED sessionVars

\* the request of thunk r fails: a server error without a body, or an
\* error with a detail message
ServeError(r) ==
    /\ reqs[r].status = "sent"
    /\ \E detail \in { f.detail : f \in FailResponses } :
          LET req == [reqs[r] EXCEPT !.status = "served",
                                     !.resp = ResourceResp(FALSE, detail)]
          IN /\ reqs' = [reqs EXCEPT ![r] = req]
             /\ rlast' = [NoStep EXCEPT !.kind = "served", !.req = req]
    /\ UNCHANGED <<server, deals, documents>>
    /\ UNCHANGED sessionVars

\* thunk q and the thunk of request req are updateDeal calls for one deal
SameUpdate(q, req) ==
    /\ req.op = "updateDeal"
    /\ reqs[q].op = "updateDeal"
    /\ reqs[q].arg.id = req.arg.id

\* the response of thunk r arrives: the thunk's body and the reducer run
Arrive(r) ==
    LET req == reqs[r]
        deleted == req.op = "deleteDeal" /\ req.resp.ok
    IN /\ req.status = "served"
       /\ IF req.op \in DealOps
          THEN /\ deals' = CompleteDeal(req.op, req.arg, deals, req.resp)
               /\ UNCHANGED documents
          ELSE /\ documents' = CompleteDocument(req.op, req.arg, documents, req.resp)
               /\ UNCHANGED deals
       /\ reqs' = [q \in ReqIds |->
                     IF q = r \/ reqs[q].status = "idle" THEN IdleReq
                     ELSE [reqs[q] EXCEPT
                             !.older = @ \ {r},
                             !.passedBy = IF SameUpdate(q, req)
                                          THEN @ \cup {[data |-> req.arg.data,
                                                        ok |-> req.resp.ok,
                                                        later |-> q \in req.older]}
                                          ELSE @,
                             !.stale = IF deleted THEN @ \cup {req.arg.id} ELSE @]]
       /\ rlast' = [kind |-> "arrived", req |-> req,
                    type |-> IF req.resp.ok THEN "fulfilled" ELSE "rejected",
                    open |-> IF req.op \in DealOps THEN deals.currentDeal.id
                             ELSE documents.currentDocument.id]
       /\ UNCHANGED server
       /\ UNCHANGED sessionVars

\* the backend's AI pipeline finishes the processing of a deal
Processed(i) ==
    /\ i \in 1..Len(server.deals)
    /\ server.deals[i].ai = "processing"
    /\ server' = [server EXCEPT !.deals[i].ai = "completed"]
    /\ rlast' = NoStep
    /\ UNCHANGED <<deals, documents, reqs>>
    /\ UNCHANGED sessionVars

\* dispatch(clearError()) of the deals slice
DealsClearError ==
    /\ deals' = dealsClearError(deals)
    /\ rlast' = NoStep
    /\ UNCHANGED <<server, documents, reqs>>
    /\ UNCHANGED sessionVars

\* dispatch(setCurrentDeal(deal)): the reducer stores the deal it is given,
\* or null
SetCurrentDeal ==
    /\ \E d \in AnyDeal \cup {NoDeal} : deals' = setCurrentDeal(deals, d)
    /\ rlast' = NoStep
    /\ UNCHANGED <<server, documents, reqs>>
    /\ UNCHANGED sessionVars

\* dispatch(clearError()) of the documents slice
DocumentsClearError ==
    /\ documents' = documentsClearError(documents)
    /\ rlast' = NoStep
    /\ UNCHANGED <<server, deals, reqs>>
    /\ UNCHANGED sessionVars

SetCurrentDocument ==
    /\ \E d \in AnyDocument \cup {NoDocument} :
          documents' = setCurrentDocument(documents, d)
    /\ rlast' = NoStep
    /\ UNCHANGED <<server, deals, reqs>>
    /\ UNCHANGED sessionVars

\* dispatch(setUploadProgress(n))
SetUploadProgress ==
    /\ \E n \in {0, 50, 100} : documents' = setUploadProgress(documents, n)
    /\ rlast' = NoStep
    /\ UNCHANGED <<server, deals, reqs>>
    /\ UNCHANGED sessionVars

\* dispatch(setUploading(b))
SetUploading ==
    /\ \E b \in BOOLEAN : documents' = setUploading(documents, b)
    /\ rlast' = NoStep
    /\ UNCHANGED <<server, deals, reqs>>
    /\ UNCHANGED sessionVars

\* the page is loaded with no session; only the two slices act
InitResources == Init /\ variant = "A" /\ lsToken = Null

\* the deals list is fetched while deals are created and deleted
NextDeals ==
    \/ \E r \in ReqIds, op \in {"fetchDeals", "createDeal", "deleteDeal"} : DispatchDeal(r, op)
    \/ \E r \in ReqIds : Serve(r)
    \/ \E r \in ReqIds : Arrive(r)

SpecDeals == InitResources /\ [][NextDeals]_vars

\* deals are created and edited while the list is fetched
NextUpdate ==
    \/ \E r \in ReqIds, op \in {"fetchDeals", "createDeal", "updateDeal"} : DispatchDeal(r, op)
    \/ \E r \in ReqIds : Serve(r)
    \/ \E r \in ReqIds : Arrive(r)

SpecUpdate == InitResources /\ [][NextUpdate]_vars

\* deals are created and opened, their AI processing is started and its
\* status is polled, one thunk at a time
NextAI ==
    \/ \E r \in ThunkIds, op \in {"createDeal", "fetchDealById", "startAIProcessing",
                                  "getDealStatus"} : DispatchDeal(r, op)
    \/ \E r \in ThunkIds : Serve(r)
    \/ \E r \in ThunkIds : ServeError(r)
    \/ \E r \in ThunkIds : Arrive(r)
    \/ \E i \in DealIds : Processed(i)
    \/ DealsClearError
    \/ SetCurrentDeal

SpecAI == InitResources /\ [][NextAI]_vars

\* the documents slice alone: documents are fetched, uploaded, polled,
\* opened and deleted, one thunk at a time, and requests fail
NextDocuments ==
    \/ \E r \in ThunkIds, op \in DocOps : DispatchDocument(r, op)
    \/ \E r \in ThunkIds : Serve(r)
    \/ \E r \in ThunkIds : ServeError(r)
    \/ \E r \in ThunkIds : Arrive(r)
    \/ DocumentsClearError
    \/ SetCurrentDocument
    \/ SetUploadProgress
    \/ SetUploading

SpecDocuments == InitResources /\ [][NextDocuments]_vars

\* deals and documents are created and deleted and documents are opened,
\* one thunk at a time, with lists of up to MaxListed entries
NextDelete ==
    \/ \E r \in ThunkIds, op \in {"createDeal", "deleteDeal"} : DispatchDeal(r, op)
    \/ \E r \in ThunkIds, op \in {"uploadDocument", "deleteDocument"} :
          DispatchDocument(r, op)
    \/ \E r \in ThunkIds : Serve(r)
    \/ \E r \in ThunkIds : Arrive(r)
    \/ SetCurrentDocument

\* the same page with a backend that creates MaxListed deals and documents
InitListed ==
    /\ LoadedPage
    /\ validRefresh = Null
    /\ variant = "A"
    /\ lsToken = Null
    /\ server.cap = MaxListed

SpecDelete == InitListed /\ [][NextDelete]_vars

\* every step of the two slices and of the backend
NextResources ==
    \/ \E r \in ReqIds, op \in DealOps : DispatchDeal(r, op)
    \/ \E r \in ReqIds, op \in DocOps : DispatchDocument(r, op)
    \/ \E r \in ReqIds : Serve(r)
    \/ \E r \in ReqIds : ServeError(r)
    \/ \E r \in ReqIds : Arrive(r)
    \/ \E i \in DealIds : Processed(i)
    \/ DealsClearError
    \/ SetCurrentDeal
    \/ DocumentsClearError
    \/ SetCurrentDocument
    \/ SetUploadProgress
    \/ SetUploading

\* the whole front end
Next ==
    \/ \E c \in CallIds, op \in AuthOps : Dispatch(c, op)
    \/ \E c \in CallIds, client \in Clients : Request(c, client)
    \/ \E c \in CallIds : RespondOk(c)
    \/ \E c \in CallIds : RespondFail(c)
    \/ ClearError
    \/ SetToken
    \/ ClearAuth
    \/ NextResources

Spec == Init /\ [][Next]_vars

----------------------------------------------------------------------------
(* Claims about the HTTP client (SpecHttp) *)

\* the latest step was the arrival of a response to the original request
\* of a call, and that response was a 401
Got401 == last.kind /= "none" /\ last.depth = 1 /\ last.resp.status = 401

\* C1: a request of the auth client that received 401 exactly once, with a
\* refresh token stored and the refresh endpoint answering successfully,
\* caused exactly one refresh call and exactly one re-issue, and its caller
\* receives the response to the re-issued request.
C1_OneRefreshOneRetry ==
    ( /\ last.kind = "settled"
      /\ last.call.client = "auth"
      /\ last.call.n401 = 1
      /\ last.call.rt401 = "yes"
      /\ ~last.call.refreshFailed )
    => /\ last.call.nRefresh = 1
       /\ last.call.nReissue = 1
       /\ last.depth = 1
       /\ last.call.result = Tag(last.resp, 2)

C1_Witness ==
    /\ last.kind = "settled"
    /\ last.call.client = "auth"
    /\ last.call.n401 = 1
    /\ last.call.rt401 = "yes"
    /\ ~last.call.refreshFailed
    /\ last.call.nRefresh = 1
    /\ last.call.result.ok

\* C2: when the refresh call made for a 401 is answered with a failure
\* (a 401 of the refresh endpoint included), both tokens are removed from
\* the Token Store, the client is redirected to /login and the original
\* request is rejected to its caller.
C2_RefreshFailureEndsSession ==
    ( /\ last.kind /= "none"
      /\ last.depth > 1
      /\ ~last.resp.ok )
    => /\ lsToken = Null
       /\ lsRefresh = Null
       /\ location = "/login"
       /\ last.kind = "settled"
       /\ ~last.call.result.ok

\* C3: the requests opened for one original 401 stay bounded, whatever the
\* backend answers: the chain of requests a call has open (the original,
\* its refresh, the refresh of that refresh, ...) stays below the bound of
\* the model, however large that bound is chosen.
C3_RetryBounded ==
    \A c \in CallIds : Len(calls[c].chain) < MaxNest

\* C4: a request whose 401 arrives while no refresh token is stored causes
\* no refresh call and no re-issue, and is rejected in that same step with
\* the 401 error it received.
C4_NoRefreshTokenFailsAtOnce ==
    ( /\ Got401
      /\ last.call.n401 = 1
      /\ last.call.rt401 = "no" )
    => /\ last.kind = "settled"
       /\ last.call.nRefresh = 0
       /\ last.call.nReissue = 0
       /\ last.call.result = Tag(last.resp, 1)
       /\ ~last.call.result.ok

C4_Witness ==
    /\ Got401
    /\ last.call.client = "auth"
    /\ last.call.rt401 = "no"
    /\ last.kind = "settled"
    /\ last.call.result.status = 401

\* C5: when the refresh returns a pair (A2, R2) and the original request is
\* re-issued, the Token Store holds (A2, R2) and the re-issued request
\* carries Authorization: Bearer A2.
C5_ReissueCarriesNewToken ==
    last.kind = "reissued"
    => /\ lsToken = last.resp.data.access_token
       /\ lsRefresh = last.resp.data.refresh_token
       /\ last.hdr = Bearer(last.resp.data.access_token)

C5_Witness ==
    /\ last.kind = "reissued"
    /\ last.resp.data.access_token = "T2"
    /\ lsToken = "T2"
    /\ lsRefresh = "R2"
    /\ last.hdr = Bearer("T2")

\* C6: one original request is re-issued at most once; when the re-issued
\* request is answered 401 too, that step sends no request (no second
\* refresh, no second re-issue) and rejects the call with that 401.
C6_AtMostOneReissue ==
    /\ \A c \in CallIds : calls[c].nReissue <= 1
    /\ last.call.nReissue <= 1
    /\ (Got401 /\ last.call.nReissue = 1)
       => /\ last.kind = "settled"
          /\ last.call.result = Tag(last.resp, 2)
          /\ ~last.call.result.ok

C6_Witness ==
    /\ Got401
    /\ last.call.nReissue = 1
    /\ last.call.n401 = 2
    /\ last.kind = "settled"

\* C7: on every client (auth, deals, documents) a request answered 401
\* while a refresh token is stored triggers a refresh call.
C7_EveryClientRefreshes ==
    ( /\ Got401
      /\ last.call.n401 = 1
      /\ last.call.rt401 = "yes" )
    => last.kind = "refresh"

----------------------------------------------------------------------------
(* Claims about the auth slice (SpecAuth) *)

\* the latest step completed the thunk op
Completed(op) == last.kind = "settled" /\ last.call.op = op

\* C8: in every reachable state of the auth slice isAuthenticated is true
\* exactly when the access token is non-null.
C8_AuthenticatedIffToken ==
    auth.isAuthenticated = (auth.token /= Null)

\* C9: when logout completes, also after a failed backend logout call, the
\* auth state is anonymous (user, token, refreshToken null, isAuthenticated
\* false) and the Token Store holds neither token.
C9_LogoutAlwaysClears ==
    Completed("logout")
    => /\ last.call.status = "fulfilled"
       /\ auth.user = Null
       /\ auth.token = Null
       /\ auth.refreshToken = Null
       /\ ~auth.isAuthenticated
       /\ lsToken = Null
       /\ lsRefresh = Null

C9_Witness ==
    /\ Completed("logout")
    /\ last.call.result.status = 500
    /\ lsToken = Null
    /\ ~auth.isAuthenticated

\* C10: when login is fulfilled with the response (A, R, U), the auth state
\* has isAuthenticated true, user U, token A, refreshToken R, and the Token
\* Store holds (A, R).
C10_LoginFulfilled ==
    (Completed("login") /\ last.call.result.ok)
    => LET d == last.call.result.data
       IN /\ last.call.status = "fulfilled"
          /\ auth.isAuthenticated
          /\ auth.user = d.user
          /\ auth.token = d.access_token
          /\ auth.refreshToken = d.refresh_token
          /\ lsToken = d.access_token
          /\ lsRefresh = d.refresh_token

C10_Witness ==
    /\ Completed("login")
    /\ last.call.result.ok
    /\ last.call.result.data.access_token = "T2"
    /\ auth.user = "U2"
    /\ lsRefresh = "R2"

\* C11: when login is rejected, from whatever state it was dispatched, the
\* error field holds the message of the failure and isAuthenticated is
\* false.
C11_FailedLoginAnonymous ==
    (Completed("login") /\ ~last.call.result.ok)
    => /\ last.call.status = "rejected"
       /\ auth.error = ErrorMessage(last.call.result, "Login failed")
       /\ ~auth.isAuthenticated

\* C12: when getCurrentUser succeeds the cached user is the one returned;
\* when it fails the session is cleared: user and tokens null,
\* isAuthenticated false, the Token Store empty.
C12_GetCurrentUserOutcome ==
    Completed("getCurrentUser")
    => IF last.call.result.ok
       THEN auth.user = last.call.result.data.user
       ELSE /\ auth.user = Null
            /\ auth.token = Null
            /\ auth.refreshToken = Null
            /\ ~auth.isAuthenticated
            /\ lsToken = Null
            /\ lsRefresh = Null

\* the rejected reducers that assign isAuthenticated = false
SetsAnonymous(v, op) ==
    \/ v = "A" /\ op = "refreshToken"
    \/ v = "B" /\ op \in {"login", "register", "getCurrentUser"}

\* C13: after a rejected login, register, refreshToken or getCurrentUser
\* whose reducer set isAuthenticated to false, the Token Store holds
\* neither an access token nor a refresh token.
C13_AnonymousClearsStore ==
    ( /\ last.kind = "settled"
      /\ last.call.status = "rejected"
      /\ SetsAnonymous(variant, last.call.op)
      /\ ~auth.isAuthenticated )
    => /\ lsToken = Null
       /\ lsRefresh = Null

----------------------------------------------------------------------------
(* Further claims about the HTTP client (SpecHttp) *)

\* the kinds of step in which a response arrived
ArrivalKinds == {"settled", "reissued", "refresh"}

\* C14: a failure of a request other than 401 (403, 500, no response at
\* all) is passed to the caller as it arrived, in the step of its arrival:
\* no refresh call and no re-issue is made, the Token Store keeps both
\* tokens and window.location is not changed.
C14_OtherFailuresPassThrough ==
    [][ ( /\ last'.kind \in ArrivalKinds
          /\ last'.depth = 1
          /\ ~last'.resp.ok
          /\ last'.resp.status /= 401 )
        => LET before == calls[last'.c]
           IN /\ last'.kind = "settled"
              /\ last'.call.result = Tag(last'.resp, before.chain[1].sends)
              /\ last'.call.nRefresh = before.nRefresh
              /\ last'.call.nReissue = before.nReissue
              /\ lsToken' = lsToken
              /\ lsRefresh' = lsRefresh
              /\ location' = location ]_vars

C14_Witness ==
    /\ last.kind = "settled"
    /\ last.depth = 1
    /\ last.call.client = "auth"
    /\ last.resp.status = 500
    /\ last.call.result = Tag(last.resp, 1)
    /\ last.call.nRefresh = 0
    /\ lsToken = "T1"
    /\ lsRefresh = "R1"
    /\ location = "/dashboard"

\* C15: every request a client sends (a caller's request, a re-issued
\* request, a refresh request) carries Bearer <the access token the Token
\* Store holds when it is sent>, whenever the store holds one; this holds
\* for the auth, the deals and the documents client.
C15_RequestCarriesStoredToken ==
    ( /\ last.kind \in {"request", "reissued", "refresh"}
      /\ Truthy(lsToken) )
    => last.hdr = Bearer(lsToken)

C15_Witness ==
    /\ last.kind = "request"
    /\ last.call.client = "documents"
    /\ lsToken = "T2"
    /\ last.hdr = Bearer("T2")

\* the calls that got their first 401 while a refresh token was stored and
\* whose original request has not been sent again yet
AwaitingRefresh ==
    { c \in CallIds : /\ calls[c].status = "pending"
                      /\ calls[c].client = "auth"
                      /\ calls[c].n401 = 1
                      /\ calls[c].rt401 = "yes"
                      /\ calls[c].nReissue = 0 }

\* C16: refreshes are not coalesced: every call of the auth client that
\* got 401 while a refresh token was stored has a refresh request of its
\* own open and has sent at least one, however many other calls are
\* refreshing at the same time.
C16_EachCallRefreshesItself ==
    \A c \in AwaitingRefresh :
        /\ Len(calls[c].chain) >= 2
        /\ calls[c].nRefresh >= 1

\* two calls have their own refresh request in flight at the same time
C16_Witness ==
    /\ Cardinality(AwaitingRefresh) >= 2
    /\ Cardinality({ c \in CallIds : Len(calls[c].chain) = 2 /\ calls[c].nRefresh = 1 }) >= 2

\* C20: whenever a request of the auth client is finally rejected with a
\* 401, the application has been redirected to /login.
C20_Final401Redirects ==
    ( /\ last.kind = "settled"
      /\ last.call.client = "auth"
      /\ ~last.call.result.ok
      /\ last.call.result.status = 401 )
    => location = "/login"

----------------------------------------------------------------------------
(* Further claims about the auth slice and the Token Store *)

\* C17: a thunk of the auth slice whose backend call failed settles as
\* rejected, and the slice's error field then holds the backend's detail
\* message or, when there is none, the thunk's fallback string (logout
\* aside, which swallows the failure).
C17_RejectedStoresMessage ==
    ( /\ last.kind = "settled"
      /\ last.call.op \in AuthOps \ {"logout"}
      /\ ~last.call.result.ok )
    => /\ last.call.status = "rejected"
       /\ auth.error = ErrorMessage(last.call.result, Fallback(variant, last.call.op))

\* C18: after clearAuth a read of the Token Store returns null for both
\* tokens and isAuthenticated is false, and applying clearAuth a second
\* time changes neither the auth state nor the Token Store.
C18_ClearIdempotent ==
    [][ ClearAuth
        => /\ lsToken' = Null
           /\ lsRefresh' = Null
           /\ ~auth'.isAuthenticated
           /\ clearAuth(Store') = Store' ]_vars

\* clearAuth ran while a refreshToken thunk, dispatched with a refresh
\* token in the state, is in flight
C18_Witness ==
    /\ last.kind = "none"
    /\ \E c \in CallIds : calls[c].status = "pending" /\ calls[c].op = "refreshToken"
    /\ auth.refreshToken = Null
    /\ ~auth.isAuthenticated
    /\ lsToken = Null
    /\ lsRefresh = Null
    /\ clearAuth(Store) = Store

\* the step changed a stored token
StoreWritten == lsToken' /= lsToken \/ lsRefresh' /= lsRefresh

\* the step completed one of the thunks ops
Completes(ops) == last'.kind = "settled" /\ last'.call.op \in ops

\* the step handled the response to a refresh request of the interceptor
RefreshPath == last'.kind \in ArrivalKinds /\ last'.depth > 1

\* C19 as claimed: a stored token changes only in a step that completes
\* login, register or logout or that belongs to the refresh path (the
\* interceptor's refresh, the refreshToken thunk).
C19_OnlyAuthCompletionsWrite ==
    [][ StoreWritten
        => \/ Completes({"login", "register", "logout", "refreshToken"})
           \/ RefreshPath ]_vars

\* C19 as amended: a stored token changes only in a step that completes
\* login, register, logout or refreshToken, that belongs to the
\* interceptor's refresh path, that rejects getCurrentUser, or that runs
\* the reducer setToken or clearAuth; every other step (a fulfilled
\* getCurrentUser, a pending reducer, clearError, a request of the deals
\* or documents client and its response) leaves both tokens unchanged.
C19_StoreWriters ==
    [][ StoreWritten
        => \/ Completes({"login", "register", "logout", "refreshToken"})
           \/ RefreshPath
           \/ Completes({"getCurrentUser"}) /\ last'.call.status = "rejected"
           \/ last'.kind = "none" /\ (SetToken \/ ClearAuth) ]_vars

\* a request of the documents client was rejected with 401 and the Token
\* Store still holds the pair
C19_Witness ==
    /\ last.kind = "settled"
    /\ last.call.client = "documents"
    /\ last.call.result.status = 401
    /\ lsToken = "T1"
    /\ lsRefresh = "R1"

----------------------------------------------------------------------------
(* Claims about the loading flag and about the slice against the store *)

\* C23 (auth slice): when a thunk's network call starts the loading flag is
\* true, and when it completes, fulfilled or rejected, the flag is false.
C23_LoadingFollowsCall ==
    /\ (last.kind = "request" /\ last.call.op \in AuthOps) => auth.isLoading
    /\ (last.kind = "settled" /\ last.call.op \in AuthOps) => ~auth.isLoading

\* C26: an anonymous auth state caches no user.
C26_AnonymousHasNoUser ==
    ~auth.isAuthenticated => auth.user = Null

\* C29: whenever no call is in flight (no thunk, no request, no refresh),
\* the slice's token and refreshToken are the tokens the Token Store holds.
C29_SliceMirrorsStore ==
    (\A c \in CallIds : calls[c].status = "idle")
    => /\ auth.token = lsToken
       /\ auth.refreshToken = lsRefresh

\* C27: once logout has completed and until a login or register is
\* fulfilled, a refresh response that arrives for a call that was in
\* flight across the logout writes no token pair: the Token Store is
\* still empty after the step that handled it.
C27_StoreEmptyAfterLogout ==
    ( /\ last.kind = "reissued"
      /\ last.call.afterLogout )
    => /\ lsToken = Null
       /\ lsRefresh = Null

\* C28: against a backend that accepts each refresh token once, whenever
\* every request has settled the Token Store holds the pair the backend
\* issued last and no redirect to /login has happened.
C28_SessionSurvivesRotation ==
    (\A c \in CallIds : calls[c].status = "idle")
    => /\ lsRefresh = validRefresh
       /\ \E p \in TokenPairs : p.refresh_token = validRefresh /\ p.access_token = lsToken
       /\ location /= "/login"

----------------------------------------------------------------------------
(* Claims about the deals and documents slices *)

\* the ids of a list's entries
IdsOf(list) == { list[i].id : i \in 1..Len(list) }

\* C21: in every reachable state of the deals slice, whatever the order in
\* which fetchDeals, createDeal and deleteDeal responses arrive from a
\* backend that gives each deal its own id, the deals list holds at most one
\* entry per id.
C21_OneEntryPerId ==
    \A i, j \in 1..Len(deals.deals) :
        deals.deals[i].id = deals.deals[j].id => i = j

\* C22: when the response of an updateDeal arrives after the response of
\* another updateDeal for the same deal that was in flight together with it,
\* whichever of the two was issued last, the first list entry with that id
\* (and currentDeal, when it has that id) equals the payload that has just
\* arrived.
C22_LastArrivalWins ==
    LET p == rlast.req.resp.deal
        index == FindIndex(deals.deals, p.id)
    IN (/\ rlast.kind = "arrived"
        /\ rlast.type = "fulfilled"
        /\ rlast.req.op = "updateDeal"
        /\ rlast.req.passedBy /= {})
       => /\ index /= 0 => deals.deals[index] = p
          /\ deals.currentDeal.id = p.id => deals.currentDeal = p

\* the update that was issued first arrives last, after the fulfilled
\* update that was issued second and carried other data; the entry and the
\* open deal show the data that was issued first
C22_Witness ==
    LET p == rlast.req.resp.deal
        index == FindIndex(deals.deals, p.id)
    IN /\ rlast.kind = "arrived"
       /\ rlast.type = "fulfilled"
       /\ rlast.req.op = "updateDeal"
       /\ \E x \in rlast.req.passedBy : x.later /\ x.ok /\ x.data /= p.data
       /\ index /= 0
       /\ deals.deals[index] = p
       /\ deals.currentDeal = p

\* the entries of a list with another id than d, in the list's order
Others(list, d) == SelectSeq(list, LAMBDA e : e.id /= d)

\* C24: when deleteDeal for id d is fulfilled, no entry with id d remains in
\* the deals list and currentDeal is not the deal with id d, while the
\* entries with another id are the same as before, in the same order; and
\* the same for deleteDocument, the documents list and currentDocument.
C24_DeleteRemovesOnlyThat ==
    [][\A r \in ReqIds :
         (Arrive(r) /\ reqs[r].resp.ok) =>
            LET d == reqs[r].arg.id
            IN /\ reqs[r].op = "deleteDeal" =>
                     /\ d \notin IdsOf(deals'.deals)
                     /\ deals'.currentDeal.id /= d
                     /\ deals'.deals = Others(deals.deals, d)
               /\ reqs[r].op = "deleteDocument" =>
                     /\ d \notin IdsOf(documents'.documents)
                     /\ documents'.currentDocument.id /= d
                     /\ documents'.documents = Others(documents.documents, d)]_vars

\* Both slices have deleted the open entry of a list of three, and two
\* entries stay in their order.
\* Documents: a deleteDocument has just been fulfilled for the document that
\* was open, the second of three; the document uploaded after it is still
\* first, the one uploaded before it still second, and none is open.
\* Deals: the backend has created its MaxListed deals, two are listed, the
\* later one first, and none is open. Here createDeal.fulfilled alone opens
\* a deal and deleteDeal.fulfilled alone closes one or takes one off the
\* list, so the deal created last was deleted while it was open.
C24_Witness ==
    LET d == rlast.req.arg.id
    IN /\ rlast.kind = "arrived"
       /\ rlast.type = "fulfilled"
       /\ rlast.req.op = "deleteDocument"
       /\ rlast.open = d
       /\ documents.currentDocument = NoDocument
       /\ Len(documents.documents) = 2
       /\ documents.documents[1].id > d
       /\ documents.documents[2].id < d
       /\ server.nDeals = MaxListed
       /\ Len(deals.deals) = 2
       /\ deals.deals[1].id > deals.deals[2].id
       /\ deals.currentDeal = NoDeal

\* C25: when startAIProcessing for deal d is fulfilled, currentDeal's
\* ai_processing_status becomes 'processing' only if currentDeal is deal d;
\* a currentDeal with another id is left as it was.
C25_OnlyProcessedDeal ==
    [][\A r \in ReqIds :
         (/\ Arrive(r)
          /\ reqs[r].resp.ok
          /\ reqs[r].op = "startAIProcessing"
          /\ deals.currentDeal.id /= reqs[r].arg.id)
         => deals'.currentDeal = deals.currentDeal]_vars

\* C30: a deleted deal does not reappear: when the response of a request
\* that was in flight while deleteDeal for id d was fulfilled arrives, the
\* deals list holds no entry with id d. (The backend gives each deal its own
\* id and has deleted d, so no request issued after the delete returns d.)
C30_DeletedStaysDeleted ==
    rlast.kind = "arrived" =>
        \A d \in rlast.req.stale : d \notin IdsOf(deals.deals)


============================================================================
